---- MODULE Spec2Model ----
(***************************************************************************)
(* PromptSpec (python): the template engine (core/prompt_template.py) and  *)
(* the manager's registry (core/prompt_manager.py).                        *)
(*                                                                         *)
(* Text is a sequence of one-character strings.  A replacement value is a  *)
(* record [t, s, n, b]: t is the Python class of the value, s the payload  *)
(* of a str, n the payload of an int (or of a float, in tenths), b the     *)
(* payload of a bool.                                                      *)
(***************************************************************************)
EXTENDS Integers, Sequences, FiniteSets, TLC

VARIABLES
    templates,      \* PromptManager._templates: name -> specification of the engine
    mpc,            \* position of the load in flight: "idle" or "loading"
    loader,         \* which load is or was last in flight: "sync", "async", "none"
    doc,            \* the document of the load in flight (or of the last load)
    idx,            \* index of the next specification of doc.prompts to process
    pre,            \* the registry as it was when the last load was called
    outcome,        \* how the last manager operation ended
    message,        \* the message of the exception it raised, if any
    obs,            \* what the last reader call returned, and when
    specification,  \* PromptTemplate._specification of the engine under test
    replacements,   \* the argument of the last generate_prompt call
    result,         \* what the last engine call returned or raised
    epc             \* last engine call: "constructed", "generate_prompt", "get_placeholder_names"

mvars == <<templates, mpc, loader, doc, idx, pre, outcome, message, obs>>
evars == <<specification, replacements, result, epc>>
vars == <<templates, mpc, loader, doc, idx, pre, outcome, message, obs,
          specification, replacements, result, epc>>

(***************************************************************************)
(* Bounds                                                                  *)
(***************************************************************************)
MaxPieces == 2      \* a template text is made of at most this many pieces
MaxSpecs == 2       \* a document holds at most this many specifications

(***************************************************************************)
(* Text                                                                    *)
(***************************************************************************)
LB == "{"
RB == "}"

RECURSIVE Concat(_)
Concat(ss) == IF ss = <<>> THEN <<>> ELSE Head(ss) \o Concat(Tail(ss))

IsSpace(c) == c \in {" ", "\n", "\t"}

\* str.strip(): drop leading and trailing whitespace
RECURSIVE LStrip(_)
LStrip(s) == IF s # <<>> /\ IsSpace(Head(s)) THEN LStrip(Tail(s)) ELSE s

RECURSIVE RStrip(_)
RStrip(s) ==
    IF s # <<>> /\ IsSpace(s[Len(s)]) THEN RStrip(SubSeq(s, 1, Len(s) - 1)) ELSE s

Strip(s) == RStrip(LStrip(s))

\* `not s or not s.strip()`
IsBlank(s) == s = <<>> \/ Strip(s) = <<>>

(***************************************************************************)
(* Replacement values and their Python classes                             *)
(***************************************************************************)
NoneValue == [t |-> "NoneType", s |-> <<>>, n |-> 0, b |-> FALSE]
StrValue(s) == [t |-> "str", s |-> s, n |-> 0, b |-> FALSE]
IntValue(n) == [t |-> "int", s |-> <<>>, n |-> n, b |-> FALSE]
FloatValue(tenths) == [t |-> "float", s |-> <<>>, n |-> tenths, b |-> FALSE]
BoolValue(b) == [t |-> "bool", s |-> <<>>, n |-> 0, b |-> b]
ListValue == [t |-> "list", s |-> <<>>, n |-> 0, b |-> FALSE]

\* the classes a value is an instance of: bool is a subclass of int
Mro(cls) == IF cls = "bool" THEN {"bool", "int", "object"} ELSE {cls, "object"}

isinstance(value, classes) == Mro(value.t) \cap classes # {}

Digit(d) == CASE d = 0 -> "0" [] d = 1 -> "1" [] d = 2 -> "2" [] d = 3 -> "3"
              [] d = 4 -> "4" [] d = 5 -> "5" [] d = 6 -> "6" [] d = 7 -> "7"
              [] d = 8 -> "8" [] d = 9 -> "9"

RECURSIVE Decimal(_)
Decimal(n) == IF n < 10 THEN <<Digit(n)>> ELSE Decimal(n \div 10) \o <<Digit(n % 10)>>

\* str(value) for a value that is not None
str(value) ==
    CASE value.t = "str" -> value.s
      [] value.t = "int" -> Decimal(value.n)
      [] value.t = "float" -> Decimal(value.n \div 10) \o <<".">> \o <<Digit(value.n % 10)>>
      [] value.t = "bool" -> IF value.b THEN <<"T", "r", "u", "e">>
                                        ELSE <<"F", "a", "l", "s", "e">>
      [] value.t = "list" -> <<"[", "]">>
      [] OTHER -> <<"N", "o", "n", "e">>

(***************************************************************************)
(* Results of engine calls                                                 *)
(***************************************************************************)
NoResult == [kind |-> "none", out |-> <<>>, names |-> {}, name |-> <<>>,
             expected |-> "", actual |-> ""]
Ok == [NoResult EXCEPT !.kind = "ok"]
Returned(text) == [NoResult EXCEPT !.kind = "ok", !.out = text]
ReturnedNames(ns) == [NoResult EXCEPT !.kind = "ok", !.names = ns]
ValueError == [NoResult EXCEPT !.kind = "ValueError"]
MissingPlaceholderException(placeholder_name) ==
    [NoResult EXCEPT !.kind = "MissingPlaceholderException", !.name = placeholder_name]
PlaceholderTypeException(placeholder_name, expected_type, actual_type) ==
    [NoResult EXCEPT !.kind = "PlaceholderTypeException", !.name = placeholder_name,
                     !.expected = expected_type, !.actual = actual_type]

(***************************************************************************)
(* PromptTemplate                                                          *)
(***************************************************************************)
\* the placeholders of a specification: None, or a dict kept in insertion order
NoPlaceholders == [isNone |-> TRUE, items |-> <<>>]
Placeholders(items) == [isNone |-> FALSE, items |-> items]

\* `if self._specification.placeholders:` (None and the empty dict are falsy)
Truthy(placeholders) == ~placeholders.isNone /\ placeholders.items # <<>>

DeclaredNames(placeholders) ==
    {placeholders.items[i].name : i \in 1..Len(placeholders.items)}

Definition(placeholders, name) ==
    LET i == CHOOSE k \in 1..Len(placeholders.items) : placeholders.items[k].name = name
    IN placeholders.items[i]

\* the replacements argument: None, or a dict
NoneReplacements == [isNone |-> TRUE, map |-> [k \in {} |-> NoneValue]]
Dict(map) == [isNone |-> FALSE, map |-> map]

\* _PLACEHOLDER_REGEX = \{([^}]+)\} tried at position i: the index of the
\* closing brace of the match, or 0 when the regex does not match at i
FirstClose(text, from) ==
    IF \E k \in from..Len(text) : text[k] = RB
    THEN CHOOSE k \in from..Len(text) :
            text[k] = RB /\ \A m \in from..(k - 1) : text[m] # RB
    ELSE 0

\* the regex \{([^{}]+)\}
MatchAt_nobrace(text, i) ==
    IF text[i] # LB THEN 0
    ELSE LET k == FirstClose(text, i + 1)
         IN IF k > i + 1 /\ \A m \in (i + 1)..(k - 1) : text[m] # LB THEN k ELSE 0

MatchAt(text, i) ==
    IF text[i] # LB THEN 0
    ELSE LET k == FirstClose(text, i + 1)
         IN IF k > i + 1 THEN k ELSE 0

\* _PLACEHOLDER_REGEX.findall: the group of every match, left to right
RECURSIVE FindAllFrom(_, _)
FindAllFrom(text, i) ==
    IF i > Len(text) THEN <<>>
    ELSE LET k == MatchAt(text, i)
         IN IF k = 0 THEN FindAllFrom(text, i + 1)
            ELSE <<SubSeq(text, i + 1, k - 1)>> \o FindAllFrom(text, k + 1)

findall(text) == FindAllFrom(text, 1)

get_placeholder_names(spec) ==
    LET matches == findall(spec.template)
    IN ReturnedNames({matches[i] : i \in 1..Len(matches)})

get_value_type(value) ==
    IF isinstance(value, {"str"}) THEN "string"
    ELSE IF isinstance(value, {"int", "float"}) THEN "number"
    ELSE IF isinstance(value, {"bool"}) THEN "boolean"
    ELSE "string"

validate_type(placeholder_name, value, expected_type) ==
    LET actual_type == get_value_type(value)
    IN IF expected_type # actual_type
       THEN PlaceholderTypeException(placeholder_name, expected_type, actual_type)
       ELSE Ok

\* a null value counted as a missing one
ValidateEntry_nullmissing(entry, map) ==
    IF entry.required /\ (entry.name \notin DOMAIN map \/ map[entry.name].t = "NoneType")
    THEN MissingPlaceholderException(entry.name)
    ELSE IF entry.name \in DOMAIN map /\ map[entry.name].t # "NoneType"
    THEN validate_type(entry.name, map[entry.name], entry.type)
    ELSE Ok

\* one iteration of the loop of _validate_placeholders
ValidateEntry(entry, map) ==
    IF entry.required /\ entry.name \notin DOMAIN map
    THEN MissingPlaceholderException(entry.name)
    ELSE IF entry.name \in DOMAIN map /\ map[entry.name].t # "NoneType"
    THEN validate_type(entry.name, map[entry.name], entry.type)
    ELSE Ok

\* the loop left after its first iteration
ValidateFrom_firstonly(items, i, map) ==
    IF i > Len(items) THEN Ok ELSE ValidateEntry(items[i], map)

RECURSIVE ValidateFrom(_, _, _)
ValidateFrom(items, i, map) ==
    IF i > Len(items) THEN Ok
    ELSE LET r == ValidateEntry(items[i], map)
         IN IF r.kind # "ok" THEN r ELSE ValidateFrom(items, i + 1, map)

\* the validation pass left out
validate_placeholders_skipped(spec, map) == Ok

validate_placeholders(spec, map) ==
    IF ~Truthy(spec.placeholders) THEN Ok
    ELSE ValidateFrom(spec.placeholders.items, 1, map)

\* a name that is no key raises, declared or not
replace_placeholder_strict(spec, map, placeholder_name) ==
    IF placeholder_name \in DOMAIN map
    THEN LET value == map[placeholder_name]
         IN Returned(IF value.t # "NoneType" THEN str(value) ELSE <<>>)
    ELSE MissingPlaceholderException(placeholder_name)

\* the callback of generate_prompt
replace_placeholder(spec, map, placeholder_name) ==
    IF placeholder_name \in DOMAIN map
    THEN LET value == map[placeholder_name]
         IN Returned(IF value.t # "NoneType" THEN str(value) ELSE <<>>)
    ELSE IF /\ Truthy(spec.placeholders)
            /\ placeholder_name \in DeclaredNames(spec.placeholders)
            /\ Definition(spec.placeholders, placeholder_name).required
    THEN MissingPlaceholderException(placeholder_name)
    ELSE Returned(<<>>)

\* _PLACEHOLDER_REGEX.sub(replace_placeholder, template): text outside the
\* matches is copied, each match is replaced by what the callback returns,
\* and an exception of the callback ends the call
RECURSIVE SubFrom(_, _, _, _)
SubFrom(spec, map, i, acc) ==
    LET text == spec.template IN
    IF i > Len(text) THEN Returned(acc)
    ELSE LET k == MatchAt(text, i)
         IN IF k = 0 THEN SubFrom(spec, map, i + 1, Append(acc, text[i]))
            ELSE LET r == replace_placeholder(spec, map, SubSeq(text, i + 1, k - 1))
                 IN IF r.kind # "ok" THEN r
                    ELSE SubFrom(spec, map, k + 1, acc \o r.out)

\* the output scanned once more
sub_rescan(spec, map) ==
    LET r == SubFrom(spec, map, 1, <<>>)
    IN IF r.kind # "ok" THEN r
       ELSE SubFrom([spec EXCEPT !.template = r.out], map, 1, <<>>)

sub(spec, map) == SubFrom(spec, map, 1, <<>>)

generate_prompt(spec, repl) ==
    IF repl.isNone THEN ValueError
    ELSE LET v == IF Truthy(spec.placeholders)
                  THEN validate_placeholders(spec, repl.map)
                  ELSE Ok
         IN IF v.kind # "ok" THEN v ELSE sub(spec, repl.map)

(***************************************************************************)
(* The engine under test: inputs                                           *)
(***************************************************************************)
NameA == <<"a">>
NameB == <<"b">>

Pieces == {<<LB>>, <<RB>>, <<"a">>, <<LB, "a", RB>>, <<LB, "b", RB>>}

Templates ==
    {Concat(ps) : ps \in UNION {[1..n -> Pieces] : n \in 0..MaxPieces}}

Types == {"string", "number", "boolean"}

PlaceholderEntries == [name : {NameA, NameB}, type : Types, required : BOOLEAN]

\* dicts of declared placeholders: the keys of a dict are distinct
PlaceholderDicts ==
    {items \in UNION {[1..n -> PlaceholderEntries] : n \in 0..2} :
        \A i, j \in 1..Len(items) : items[i].name = items[j].name => i = j}

PlaceholderMaps == {NoPlaceholders} \cup {Placeholders(items) : items \in PlaceholderDicts}

EngineSpecifications ==
    [name : {<<"t">>}, template : Templates, placeholders : PlaceholderMaps]

ValuesA == {NoneValue, StrValue(<<LB, "b", RB>>), IntValue(12), FloatValue(15),
            BoolValue(TRUE), ListValue}
ValuesB == {NoneValue, StrValue(<<"x">>), IntValue(7)}

ValuesOf(key) == IF key = NameA THEN ValuesA ELSE ValuesB

ReplacementDicts ==
    UNION {{m \in [keys -> ValuesA \cup ValuesB] : \A k \in keys : m[k] \in ValuesOf(k)} :
            keys \in SUBSET {NameA, NameB}}

ReplacementArgs == {NoneReplacements} \cup {Dict(m) : m \in ReplacementDicts}

(***************************************************************************)
(* PromptManager                                                           *)
(***************************************************************************)
\* file: "none" for a text given to the manager, "found" for the text of
\* an existing file, "missing" for a path that does not exist
NoDocument == [file |-> "none", raw |-> <<>>, yaml |-> "none", prompts |-> <<>>]
NoObservation == [op |-> "none", arg |-> <<>>, during |-> "idle", raised |-> "none",
                  carried |-> {}, found |-> FALSE, engine |-> {}, all |-> <<>>,
                  count |-> 0, names |-> {}]
EmptyRegistry == [n \in {} |-> <<>>]

Insert(reg, name, spec) ==
    [n \in DOMAIN reg \cup {name} |-> IF n = name THEN spec ELSE reg[n]]

\* the messages of the exceptions of the manager
NoMessage == "none"
NameRequired == "Prompt name is required and cannot be empty."
TemplateRequired == "Template is required for prompt and cannot be empty."
PlaceholderNameEmpty == "Placeholder name cannot be empty in prompt."
DuplicateName == "Duplicate prompt name found."
NoPromptsSection == "Invalid YAML: No 'prompts' section found or it is null."
YamlFailed == "Failed to parse YAML content."
LoadFailed == "An error occurred while loading templates."
ContentEmpty == "yaml_content cannot be None or empty"

\* the placeholder keys left unchecked
validate_specification_nokeys(spec) ==
    IF Strip(spec.name) = <<>> THEN NameRequired
    ELSE IF Strip(spec.template) = <<>> THEN TemplateRequired
    ELSE NoMessage

\* the template left unchecked
validate_specification_notemplate(spec) ==
    IF Strip(spec.name) = <<>> THEN NameRequired
    ELSE IF /\ Truthy(spec.placeholders)
            /\ \E i \in 1..Len(spec.placeholders.items) :
                  Strip(spec.placeholders.items[i].name) = <<>>
    THEN PlaceholderNameEmpty
    ELSE NoMessage

\* _validate_specification: NoMessage when it returns, the message of the
\* exception when it raises
validate_specification(spec) ==
    IF Strip(spec.name) = <<>> THEN NameRequired
    ELSE IF Strip(spec.template) = <<>> THEN TemplateRequired
    ELSE IF /\ Truthy(spec.placeholders)
            /\ \E i \in 1..Len(spec.placeholders.items) :
                  Strip(spec.placeholders.items[i].name) = <<>>
    THEN PlaceholderNameEmpty
    ELSE NoMessage

\* what load_templates does before its loop: the exception it raises and the
\* registry it leaves, or "loop" and the cleared registry when it enters the loop
load_templates_prologue_noclear(d, reg) ==
    IF IsBlank(d.raw)
    THEN [exit |-> "ValueError", reg |-> reg, message |-> ContentEmpty]
    ELSE IF d.yaml = "YAMLError"
    THEN [exit |-> "PromptValidationException", reg |-> reg, message |-> YamlFailed]
    ELSE IF d.yaml = "NoPrompts"
    THEN [exit |-> "PromptValidationException", reg |-> reg, message |-> NoPromptsSection]
    ELSE IF d.yaml = "BindingError"
    THEN [exit |-> "PromptValidationException", reg |-> reg, message |-> LoadFailed]
    ELSE [exit |-> "loop", reg |-> reg, message |-> NoMessage]

\* the blank test moved inside the try block
load_templates_prologue_wrapped(d, reg) ==
    IF IsBlank(d.raw)
    THEN [exit |-> "PromptValidationException", reg |-> reg, message |-> LoadFailed]
    ELSE IF d.yaml = "YAMLError"
    THEN [exit |-> "PromptValidationException", reg |-> reg, message |-> YamlFailed]
    ELSE IF d.yaml = "NoPrompts"
    THEN [exit |-> "PromptValidationException", reg |-> reg, message |-> NoPromptsSection]
    ELSE IF d.yaml = "BindingError"
    THEN [exit |-> "PromptValidationException", reg |-> reg, message |-> LoadFailed]
    ELSE [exit |-> "loop", reg |-> EmptyRegistry, message |-> NoMessage]

load_templates_prologue(d, reg) ==
    IF IsBlank(d.raw)
    THEN [exit |-> "ValueError", reg |-> reg, message |-> ContentEmpty]
    ELSE IF d.yaml = "YAMLError"
    THEN [exit |-> "PromptValidationException", reg |-> reg, message |-> YamlFailed]
    ELSE IF d.yaml = "NoPrompts"
    THEN [exit |-> "PromptValidationException", reg |-> reg, message |-> NoPromptsSection]
    ELSE IF d.yaml = "BindingError"
    THEN [exit |-> "PromptValidationException", reg |-> reg, message |-> LoadFailed]
    ELSE [exit |-> "loop", reg |-> EmptyRegistry, message |-> NoMessage]

\* the duplicate check left out: a repeated name overwrites
load_templates_iteration_overwrite(reg, spec) ==
    LET v == validate_specification(spec) IN
    IF v # NoMessage THEN [raised |-> TRUE, reg |-> reg, message |-> v]
    ELSE [raised |-> FALSE, reg |-> Insert(reg, spec.name, spec), message |-> NoMessage]

\* one iteration of the loop of load_templates
load_templates_iteration(reg, spec) ==
    LET v == validate_specification(spec) IN
    IF v # NoMessage THEN [raised |-> TRUE, reg |-> reg, message |-> v]
    ELSE IF spec.name \in DOMAIN reg
    THEN [raised |-> TRUE, reg |-> reg, message |-> DuplicateName]
    ELSE [raised |-> FALSE, reg |-> Insert(reg, spec.name, spec), message |-> NoMessage]

\* the duplicate check left out of the async load
load_templates_async_iteration_overwrite(reg, spec) ==
    LET v == validate_specification(spec) IN
    IF v # NoMessage THEN [raised |-> TRUE, reg |-> reg, message |-> v]
    ELSE [raised |-> FALSE, reg |-> Insert(reg, spec.name, spec), message |-> NoMessage]

\* the same two parts of load_templates_async
load_templates_async_prologue(d, reg) ==
    IF IsBlank(d.raw)
    THEN [exit |-> "ValueError", reg |-> reg, message |-> ContentEmpty]
    ELSE IF d.yaml = "YAMLError"
    THEN [exit |-> "PromptValidationException", reg |-> reg, message |-> YamlFailed]
    ELSE IF d.yaml = "NoPrompts"
    THEN [exit |-> "PromptValidationException", reg |-> reg, message |-> NoPromptsSection]
    ELSE IF d.yaml = "BindingError"
    THEN [exit |-> "PromptValidationException", reg |-> reg, message |-> LoadFailed]
    ELSE [exit |-> "loop", reg |-> EmptyRegistry, message |-> NoMessage]

load_templates_async_iteration(reg, spec) ==
    LET v == validate_specification(spec) IN
    IF v # NoMessage THEN [raised |-> TRUE, reg |-> reg, message |-> v]
    ELSE IF spec.name \in DOMAIN reg
    THEN [raised |-> TRUE, reg |-> reg, message |-> DuplicateName]
    ELSE [raised |-> FALSE, reg |-> Insert(reg, spec.name, spec), message |-> NoMessage]

Prologue(which, d, reg) ==
    IF which = "sync" THEN load_templates_prologue(d, reg)
    ELSE load_templates_async_prologue(d, reg)

Iteration(which, reg, spec) ==
    IF which = "sync" THEN load_templates_iteration(reg, spec)
    ELSE load_templates_async_iteration(reg, spec)

\* a load is called: everything up to and including self._templates.clear()
LoadCall(which, d) ==
    /\ mpc = "idle"
    /\ loader' = which
    /\ doc' = d
    /\ pre' = templates
    /\ obs' = NoObservation
    /\ LET p == Prologue(which, d, templates) IN
       /\ templates' = p.reg
       /\ message' = p.message
       /\ IF p.exit # "loop"
          THEN outcome' = p.exit /\ UNCHANGED <<mpc, idx>>
          ELSE IF d.prompts = <<>>
          THEN outcome' = "ok" /\ UNCHANGED <<mpc, idx>>
          ELSE outcome' = "pending" /\ mpc' = "loading" /\ idx' = 1
    /\ UNCHANGED evars

load_templates(d) == LoadCall("sync", d)

load_templates_async(d) == LoadCall("async", d)

FileNotFound == "Template file not found"

\* `if not path.exists()` of load_templates_from_file and of its async twin
load_templates_from_file_exists(f) == f.file # "missing"

load_templates_from_file_async_exists(f) == f.file # "missing"

Exists(which, f) ==
    IF which = "sync" THEN load_templates_from_file_exists(f)
    ELSE load_templates_from_file_async_exists(f)

\* a load from a file is called: FileNotFoundError, or the load of its text
LoadFileCall(which, f) ==
    IF Exists(which, f) THEN LoadCall(which, f)
    ELSE /\ mpc = "idle"
         /\ loader' = which
         /\ doc' = f
         /\ pre' = templates
         /\ obs' = NoObservation
         /\ outcome' = "FileNotFoundError"
         /\ message' = FileNotFound
         /\ UNCHANGED <<templates, mpc, idx, evars>>

load_templates_from_file(f) == LoadFileCall("sync", f)

load_templates_from_file_async(f) == LoadFileCall("async", f)

\* the load in flight processes its next specification, and returns or
\* raises when that ends the loop
LoadStep ==
    /\ mpc = "loading"
    /\ LET r == Iteration(loader, templates, doc.prompts[idx]) IN
       /\ templates' = r.reg
       /\ message' = r.message
       /\ IF r.raised
          THEN outcome' = "PromptValidationException" /\ mpc' = "idle" /\ idx' = 0
          ELSE IF idx = Len(doc.prompts)
          THEN outcome' = "ok" /\ mpc' = "idle" /\ idx' = 0
          ELSE outcome' = "pending" /\ mpc' = "loading" /\ idx' = idx + 1
    /\ obs' = NoObservation
    /\ UNCHANGED <<loader, doc, pre, evars>>

clear ==
    /\ mpc = "idle"
    /\ templates' = EmptyRegistry
    /\ loader' = "none"
    /\ doc' = NoDocument
    /\ pre' = EmptyRegistry
    /\ outcome' = "cleared"
    /\ message' = NoMessage
    /\ obs' = NoObservation
    /\ UNCHANGED <<mpc, idx, evars>>

\* readers: they may run while a load is in flight
Observe(o) ==
    /\ obs' = [o EXCEPT !.during = mpc]
    /\ UNCHANGED <<templates, mpc, loader, doc, idx, pre, outcome, message, evars>>

get_prompt_result(reg, prompt_name) ==
    IF IsBlank(prompt_name)
    THEN [NoObservation EXCEPT !.op = "get_prompt", !.arg = prompt_name,
                               !.raised = "ValueError"]
    ELSE IF prompt_name \in DOMAIN reg
    THEN [NoObservation EXCEPT !.op = "get_prompt", !.arg = prompt_name,
                               !.found = TRUE, !.engine = {reg[prompt_name]}]
    ELSE [NoObservation EXCEPT !.op = "get_prompt", !.arg = prompt_name]

has_prompt_result(reg, prompt_name) ==
    [NoObservation EXCEPT !.op = "has_prompt", !.arg = prompt_name,
        !.found = prompt_name # <<>> /\ Strip(prompt_name) # <<>>
                  /\ prompt_name \in DOMAIN reg]

\* the not-found indicator returned instead of the exception
get_required_prompt_result_noraise(reg, prompt_name) ==
    [get_prompt_result(reg, prompt_name) EXCEPT !.op = "get_required_prompt"]

get_required_prompt_result(reg, prompt_name) ==
    LET template == get_prompt_result(reg, prompt_name) IN
    IF template.raised # "none" THEN [template EXCEPT !.op = "get_required_prompt"]
    ELSE IF ~template.found
    THEN [NoObservation EXCEPT !.op = "get_required_prompt", !.arg = prompt_name,
                               !.raised = "PromptNotFoundException",
                               !.carried = {prompt_name}]
    ELSE [template EXCEPT !.op = "get_required_prompt"]

\* list(self._templates.values()): one engine per key
RECURSIVE ValuesList(_, _)
ValuesList(reg, keys) ==
    IF keys = {} THEN <<>>
    ELSE LET k == CHOOSE k \in keys : TRUE
         IN <<reg[k]>> \o ValuesList(reg, keys \ {k})

get_all_prompts_result(reg) ==
    [NoObservation EXCEPT !.op = "get_all_prompts", !.all = ValuesList(reg, DOMAIN reg)]

template_count_result(reg) ==
    [NoObservation EXCEPT !.op = "template_count", !.count = Cardinality(DOMAIN reg)]

template_names_result(reg) ==
    [NoObservation EXCEPT !.op = "template_names", !.names = DOMAIN reg]

get_prompt(prompt_name) == Observe(get_prompt_result(templates, prompt_name))

has_prompt(prompt_name) == Observe(has_prompt_result(templates, prompt_name))

get_required_prompt(prompt_name) ==
    Observe(get_required_prompt_result(templates, prompt_name))

get_all_prompts == Observe(get_all_prompts_result(templates))

template_count == Observe(template_count_result(templates))

template_names == Observe(template_names_result(templates))

(***************************************************************************)
(* The manager: initial state                                              *)
(***************************************************************************)
ManagerInit ==
    /\ templates = EmptyRegistry
    /\ mpc = "idle"
    /\ loader = "none"
    /\ doc = NoDocument
    /\ idx = 0
    /\ pre = EmptyRegistry
    /\ outcome = "none"
    /\ message = NoMessage
    /\ obs = NoObservation

(***************************************************************************)
(* The manager: documents                                                  *)
(***************************************************************************)
RequiredA == Placeholders(<<[name |-> NameA, type |-> "string", required |-> TRUE]>>)
BlankKey == Placeholders(<<[name |-> <<" ">>, type |-> "string", required |-> FALSE]>>)

ValidSpecifications ==
    {[name |-> NameA, template |-> <<"t">>, placeholders |-> NoPlaceholders],
     [name |-> NameA, template |-> <<LB, "a", RB>>, placeholders |-> RequiredA],
     [name |-> NameB, template |-> <<"t">>, placeholders |-> NoPlaceholders]}

InvalidSpecifications ==
    {[name |-> <<" ">>, template |-> <<"t">>, placeholders |-> NoPlaceholders],
     [name |-> NameA, template |-> <<" ", "\n">>, placeholders |-> NoPlaceholders],
     [name |-> NameB, template |-> <<"t">>, placeholders |-> BlankKey]}

DocSpecifications == ValidSpecifications \cup InvalidSpecifications

Collections == UNION {[1..n -> DocSpecifications] : n \in 0..MaxSpecs}

Documents ==
    {[file |-> "none", raw |-> r, yaml |-> "none", prompts |-> <<>>] :
        r \in {<<>>, <<" ", "\n">>}}
    \cup {[file |-> "none", raw |-> <<"p">>, yaml |-> y, prompts |-> <<>>] :
            y \in {"YAMLError", "NoPrompts", "BindingError"}}
    \cup {[file |-> "none", raw |-> <<"p">>, yaml |-> "Collection", prompts |-> c] :
            c \in Collections}

\* file paths: one that does not exist, and files holding the documents of at
\* most one specification
Files ==
    {[NoDocument EXCEPT !.file = "missing"]}
    \cup {[d EXCEPT !.file = "found"] : d \in {x \in Documents : Len(x.prompts) <= 1}}

LookupNames == {NameA, NameB, <<" ">>}

(***************************************************************************)
(* The engine under test: one engine, any sequence of calls                *)
(***************************************************************************)
EngineIdle ==
    /\ specification = [name |-> <<"t">>, template |-> <<"t">>, placeholders |-> NoPlaceholders]
    /\ replacements = NoneReplacements
    /\ result = NoResult
    /\ epc = "constructed"

\* PromptTemplate(specification)
InitEngine ==
    /\ ManagerInit
    /\ specification \in EngineSpecifications
    /\ replacements = NoneReplacements
    /\ result = NoResult
    /\ epc = "constructed"

CallGeneratePrompt(repl) ==
    /\ replacements' = repl
    /\ result' = generate_prompt(specification, repl)
    /\ epc' = "generate_prompt"
    /\ UNCHANGED <<specification, mvars>>

CallGetPlaceholderNames ==
    /\ result' = get_placeholder_names(specification)
    /\ epc' = "get_placeholder_names"
    /\ UNCHANGED <<specification, replacements, mvars>>

NextEngine ==
    \/ \E repl \in ReplacementArgs : CallGeneratePrompt(repl)
    \/ CallGetPlaceholderNames

SpecEngine == InitEngine /\ [][NextEngine]_vars

(***************************************************************************)
(* The manager: any sequence of loads, clears and reads                    *)
(***************************************************************************)
Init == ManagerInit /\ EngineIdle

Next ==
    \/ \E d \in Documents : load_templates(d)
    \/ \E d \in Documents : load_templates_async(d)
    \/ \E f \in Files : load_templates_from_file(f)
    \/ \E f \in Files : load_templates_from_file_async(f)
    \/ LoadStep
    \/ clear
    \/ \E n \in LookupNames : get_prompt(n)
    \/ \E n \in LookupNames : has_prompt(n)
    \/ \E n \in LookupNames : get_required_prompt(n)
    \/ get_all_prompts
    \/ template_count
    \/ template_names

Spec == Init /\ [][Next]_vars

(***************************************************************************)
(* Claims about the manager                                                *)
(***************************************************************************)
LoadReturned == mpc = "idle" /\ loader # "none"

DocumentNames == {doc.prompts[i].name : i \in 1..Len(doc.prompts)}

\* C1: a load that fails with a validation error (YAML, missing 'prompts',
\* binding, semantic validation, duplicate name) leaves the registry exactly
\* as it was when the load was called.
C1_FailedLoadKeepsRegistry ==
    (LoadReturned /\ outcome = "PromptValidationException") => templates = pre

\* the registry the load in flight ends with
RECURSIVE RunLoop(_, _, _, _)
RunLoop(which, reg, prompts, i) ==
    IF i > Len(prompts) THEN reg
    ELSE LET r == Iteration(which, reg, prompts[i])
         IN IF r.raised THEN r.reg ELSE RunLoop(which, r.reg, prompts, i + 1)

PostRegistry == RunLoop(loader, EmptyRegistry, doc.prompts, 1)

ReadOf(reg) ==
    CASE obs.op = "get_prompt" -> get_prompt_result(reg, obs.arg)
      [] obs.op = "has_prompt" -> has_prompt_result(reg, obs.arg)
      [] obs.op = "template_count" -> template_count_result(reg)
      [] obs.op = "template_names" -> template_names_result(reg)
      [] OTHER -> NoObservation

\* C2: a reader that calls get_prompt, has_prompt, template_count or
\* template_names while a load is in flight gets what the registry before the
\* load or the registry after the load would return.
C2_ReaderSeesPreOrPost ==
    (/\ obs.op \in {"get_prompt", "has_prompt", "template_count", "template_names"}
     /\ obs.during = "loading") =>
        \/ obs = [ReadOf(pre) EXCEPT !.during = "loading"]
        \/ obs = [ReadOf(PostRegistry) EXCEPT !.during = "loading"]

\* C3: after a load that succeeds on document D the registry holds exactly
\* the names of D, each mapped to the engine of D's specification of that
\* name: the count is the number of specifications of D, every name of D is
\* retrievable, and no earlier entry survives.
C3_SuccessfulLoadReplaces ==
    (LoadReturned /\ outcome = "ok") =>
        /\ template_names_result(templates).names = DocumentNames
        /\ template_count_result(templates).count = Len(doc.prompts)
        /\ \A i \in 1..Len(doc.prompts) :
              get_prompt_result(templates, doc.prompts[i].name).engine = {doc.prompts[i]}

\* a load has succeeded, and an entry of an earlier load is gone
C3_Witness ==
    /\ LoadReturned /\ outcome = "ok"
    /\ templates # EmptyRegistry
    /\ DOMAIN pre \ DOMAIN templates # {}

(***************************************************************************)
(* Claims about the engine                                                 *)
(***************************************************************************)
Generated == epc = "generate_prompt" /\ ~replacements.isNone

Items == specification.placeholders.items

Supplied(name) == name \in DOMAIN replacements.map

SuppliedValue(name) == replacements.map[name]

\* the runtime category of a value as the specification states it
StatedCategory(value) ==
    CASE value.t = "bool" -> "boolean"
      [] value.t \in {"int", "float"} -> "number"
      [] OTHER -> "string"

\* C4: a type-mismatch error reports the category of the value with every
\* boolean classified "boolean" (never "number"), every integer and float
\* "number", everything else "string"; a boolean supplied for a placeholder
\* declared boolean raises no type mismatch, and a boolean supplied for a
\* placeholder declared number raises one with actual type "boolean".
C4_BooleanBeforeNumber ==
    Generated =>
        /\ result.kind = "PlaceholderTypeException" =>
              result.actual = StatedCategory(SuppliedValue(result.name))
        /\ \A i \in 1..Len(Items) :
              (Supplied(Items[i].name) /\ SuppliedValue(Items[i].name).t = "bool") =>
                 /\ Items[i].type = "boolean" =>
                       ~(result.kind = "PlaceholderTypeException"
                         /\ result.name = Items[i].name)
                 /\ (Items[i].type = "number" /\ i = 1) =>
                       result = PlaceholderTypeException(Items[i].name, "number", "boolean")

\* the spans of the regex: an opening brace not inside an earlier span, at
\* least one character other than a closing brace, and the next closing brace
Span(text, i, j) ==
    /\ i \in 1..Len(text) /\ j \in 1..Len(text)
    /\ text[i] = LB /\ text[j] = RB /\ i + 1 < j
    /\ \A m \in (i + 1)..(j - 1) : text[m] # RB
    /\ \A m \in 1..(i - 1) : text[m] = LB => \E q \in (m + 1)..(i - 1) : text[q] = RB

\* the spans whose name holds no brace at all
BraceFreeSpan(text, i, j) ==
    /\ i \in 1..Len(text) /\ j \in 1..Len(text)
    /\ text[i] = LB /\ text[j] = RB /\ i + 1 < j
    /\ \A m \in (i + 1)..(j - 1) : text[m] \notin {LB, RB}

Positions(text) == (1..Len(text)) \X (1..Len(text))

\* C5 as stated: get_placeholder_names returns exactly the names of the
\* spans '{name}' whose name holds neither '{' nor '}'.
C5_NamesHoldNoBrace ==
    epc = "get_placeholder_names" =>
        result.names =
            {SubSeq(specification.template, ij[1] + 1, ij[2] - 1) :
                ij \in {p \in Positions(specification.template) :
                          BraceFreeSpan(specification.template, p[1], p[2])}}

\* C5 as amended: get_placeholder_names returns exactly the distinct names of
\* the spans '{name}' whose name is non-empty and holds no '}' (it may hold
\* '{'), found non-overlapping from left to right, whatever is declared.
C5_NamesOfSpans ==
    epc = "get_placeholder_names" =>
        /\ result.kind = "ok"
        /\ result.names =
            {SubSeq(specification.template, ij[1] + 1, ij[2] - 1) :
                ij \in {p \in Positions(specification.template) :
                          Span(specification.template, p[1], p[2])}}

\* the names of a text with an opening brace inside a name have been listed
C5_Witness ==
    /\ epc = "get_placeholder_names"
    /\ \E n \in result.names : \E k \in 1..Len(n) : n[k] = LB
    /\ Truthy(specification.placeholders)

MissingRequired ==
    {i \in 1..Len(Items) : Items[i].required /\ ~Supplied(Items[i].name)}

FirstMissingRequired == CHOOSE i \in MissingRequired : \A k \in MissingRequired : i <= k

\* C6 as stated: when a declared required placeholder is not a key of the
\* replacements, generate_prompt raises a missing-placeholder error carrying
\* the name of such a placeholder.
C6_MissingRequiredRaisesMissing ==
    (Generated /\ MissingRequired # {}) =>
        /\ result.kind = "MissingPlaceholderException"
        /\ \E i \in MissingRequired : Items[i].name = result.name

\* C6 as amended: when a declared required placeholder is not a key of the
\* replacements, generate_prompt returns no string, whether or not the name
\* occurs in the template: it raises a missing-placeholder error carrying the
\* name of the first such placeholder in declaration order, or a type-mismatch
\* error carrying the name of a placeholder declared before that one and
\* supplied with a non-null value.
C6_MissingRequiredRaises ==
    (Generated /\ MissingRequired # {}) =>
        \/ result = MissingPlaceholderException(Items[FirstMissingRequired].name)
        \/ /\ result.kind = "PlaceholderTypeException"
           /\ \E i \in 1..(FirstMissingRequired - 1) :
                 /\ Items[i].name = result.name
                 /\ Supplied(Items[i].name)
                 /\ SuppliedValue(Items[i].name) # NoneValue

HasSpanNamed(text, name) ==
    \E p \in Positions(text) : Span(text, p[1], p[2]) /\ SubSeq(text, p[1] + 1, p[2] - 1) = name

\* a required placeholder that occurs nowhere in the template was missing,
\* and the missing-placeholder error was raised
C6_Witness ==
    /\ Generated /\ MissingRequired # {}
    /\ result.kind = "MissingPlaceholderException"
    /\ ~HasSpanNamed(specification.template, result.name)
    /\ Len(Items) = 2

Mismatched ==
    {i \in 1..Len(Items) :
        /\ Supplied(Items[i].name)
        /\ SuppliedValue(Items[i].name) # NoneValue
        /\ StatedCategory(SuppliedValue(Items[i].name)) # Items[i].type}

\* C7: when every required declared placeholder is a key of the replacements,
\* generate_prompt raises a type-mismatch error exactly when some declared
\* placeholder is supplied with a non-null value whose category differs from
\* its declared type; the error carries that name, the declared type and the
\* category of the value; values of undeclared names never raise it.
C7_TypeMismatchIffCategoryDiffers ==
    (Generated /\ MissingRequired = {}) =>
        /\ result.kind = "PlaceholderTypeException" <=> Mismatched # {}
        /\ result.kind = "PlaceholderTypeException" =>
              \E i \in Mismatched :
                 result = PlaceholderTypeException(Items[i].name, Items[i].type,
                              StatedCategory(SuppliedValue(Items[i].name)))

\* the text a placeholder name is replaced by
ReplacementText(name) ==
    IF Supplied(name) /\ SuppliedValue(name) # NoneValue THEN str(SuppliedValue(name))
    ELSE <<>>

\* what position k of the template contributes to the output: the replacement
\* text where a span opens, nothing inside a span, the character elsewhere;
\* the spans named in `emptied' contribute nothing
Contribution(text, k, emptied) ==
    IF \E j \in 1..Len(text) : Span(text, k, j)
    THEN LET j == CHOOSE j \in 1..Len(text) : Span(text, k, j)
             name == SubSeq(text, k + 1, j - 1)
         IN IF name \in emptied THEN <<>> ELSE ReplacementText(name)
    ELSE IF \E p \in Positions(text) : Span(text, p[1], p[2]) /\ p[1] < k /\ k <= p[2]
    THEN <<>>
    ELSE <<text[k]>>

RECURSIVE ExpectedFrom(_, _, _)
ExpectedFrom(text, k, emptied) ==
    IF k > Len(text) THEN <<>>
    ELSE Contribution(text, k, emptied) \o ExpectedFrom(text, k + 1, emptied)

NullRequired ==
    {i \in 1..Len(Items) :
        Items[i].required /\ Supplied(Items[i].name) /\ SuppliedValue(Items[i].name) = NoneValue}

\* C8: a required declared placeholder supplied with the null value raises
\* neither a missing-placeholder nor a type-mismatch error for that
\* placeholder, whatever its declared type, and every occurrence of it in the
\* template is rendered as the empty string.
C8_NullSatisfiesRequired ==
    Generated =>
        /\ \A i \in NullRequired :
              ~(/\ result.kind \in {"MissingPlaceholderException", "PlaceholderTypeException"}
                /\ result.name = Items[i].name)
        /\ (NullRequired # {} /\ result.kind = "ok") =>
              result.out = ExpectedFrom(specification.template, 1,
                                        {Items[i].name : i \in NullRequired})

\* a required placeholder declared number, supplied as null, was rendered
C8_Witness ==
    /\ Generated /\ result.kind = "ok"
    /\ \E i \in NullRequired :
          Items[i].type = "number" /\ HasSpanNamed(specification.template, Items[i].name)

\* C9: with no declared placeholders (absent or empty map) generate_prompt
\* never raises on a non-null replacements mapping: each occurrence is
\* replaced by the text of its value when its name is a key and by the empty
\* string otherwise, and keys that match no occurrence are ignored.
C9_UndeclaredNeverRaises ==
    (Generated /\ ~Truthy(specification.placeholders)) =>
        /\ result.kind = "ok"
        /\ result.out = ExpectedFrom(specification.template, 1, {})

\* nothing is declared, an occurrence has no key and a key has no occurrence
C9_Witness ==
    /\ Generated /\ ~Truthy(specification.placeholders)
    /\ HasSpanNamed(specification.template, NameA) /\ ~Supplied(NameA)
    /\ ~HasSpanNamed(specification.template, NameB) /\ Supplied(NameB)
    /\ result.kind = "ok"

\* C10: the output of a successful generate_prompt is the template in which
\* each span, left to right, is replaced by the text of its value (empty for
\* null and for a name that is no key), every character outside the spans is
\* kept in order, and replacement text is not scanned again.
C10_OutputIsTemplateWithSpansReplaced ==
    (Generated /\ result.kind = "ok") =>
        result.out = ExpectedFrom(specification.template, 1, {})

\* two spans were replaced, the first by a text that is itself a placeholder
\* of a supplied name
C10_Witness ==
    /\ Generated /\ result.kind = "ok"
    /\ specification.template = <<LB, "a", RB, LB, "b", RB>>
    /\ Supplied(NameA) /\ SuppliedValue(NameA) = StrValue(<<LB, "b", RB>>)
    /\ Supplied(NameB) /\ SuppliedValue(NameB) = StrValue(<<"x">>)
    /\ result.out = <<LB, "b", RB, "x">>

(***************************************************************************)
(* More claims about the manager                                           *)
(***************************************************************************)
\* a text that is empty or holds only whitespace
AllSpace(text) == \A k \in 1..Len(text) : IsSpace(text[k])

\* the load was given a text that parsed and bound to a collection
LoadedCollection == LoadReturned /\ ~AllSpace(doc.raw) /\ doc.yaml = "Collection"

\* a specification that passes semantic validation
Sound(spec) ==
    /\ ~AllSpace(spec.name)
    /\ ~AllSpace(spec.template)
    /\ \A i \in 1..Len(spec.placeholders.items) : ~AllSpace(spec.placeholders.items[i].name)

RepeatsEarlierName(j) == \E i \in 1..(j - 1) : doc.prompts[i].name = doc.prompts[j].name

RepeatedName == \E j \in 1..Len(doc.prompts) : RepeatsEarlierName(j)

AllSound == \A i \in 1..Len(doc.prompts) : Sound(doc.prompts[i])

RaisedDuplicate == outcome = "PromptValidationException" /\ message = DuplicateName

\* C11 as stated: a load fails with the duplicate-name validation error
\* exactly when two specifications of the document have identical names.
C11_DuplicateIffRepeatedName ==
    LoadedCollection => (RaisedDuplicate <=> RepeatedName)

\* C11 as amended: a load fails with the duplicate-name validation error
\* exactly when some specification has the name of an earlier specification
\* of the same document and it and every specification before it pass
\* semantic validation; names left in the registry by a previous load never
\* fail a load, so a sound document without repeated names loads whatever the
\* registry held, the same document twice included, with the same registry.
C11_DuplicateIffRepeatedSoundName ==
    LoadedCollection =>
        /\ RaisedDuplicate <=>
              \E j \in 1..Len(doc.prompts) :
                 /\ RepeatsEarlierName(j)
                 /\ \A k \in 1..j : Sound(doc.prompts[k])
        /\ (AllSound /\ ~RepeatedName) =>
              /\ outcome = "ok"
              /\ DOMAIN templates = DocumentNames
              /\ \A i \in 1..Len(doc.prompts) : templates[doc.prompts[i].name] = doc.prompts[i]

\* a document of two specifications was loaded over the registry that a load
\* of the same document had left
C11_Witness ==
    /\ LoadedCollection /\ outcome = "ok"
    /\ Len(doc.prompts) = 2
    /\ pre = templates

\* C12: a load of an empty or whitespace-only text raises ValueError, which
\* is not a validation error, and leaves the registry as it was.
C12_BlankTextIsUsageError ==
    (LoadReturned /\ doc.file # "missing" /\ AllSpace(doc.raw)) =>
        /\ outcome = "ValueError"
        /\ outcome # "PromptValidationException"
        /\ templates = pre

\* a whitespace-only text was given to a manager with a non-empty registry
C12_Witness ==
    /\ LoadReturned /\ doc.raw = <<" ", "\n">>
    /\ outcome = "ValueError"
    /\ pre # EmptyRegistry

LookupsAgree(reg, n) ==
    LET g == get_prompt_result(reg, n)
        r == get_required_prompt_result(reg, n)
        h == has_prompt_result(reg, n)
    IN IF AllSpace(n)
       THEN /\ h.raised = "none" /\ ~h.found
            /\ g.raised = "ValueError"
            /\ r.raised = "ValueError"
       ELSE /\ h.raised = "none" /\ g.raised = "none"
            /\ h.found <=> g.found
            /\ g.found <=> n \in DOMAIN reg
            /\ g.found => /\ g.engine = {reg[n]}
                          /\ r.raised = "none" /\ r.found /\ r.engine = g.engine
            /\ ~g.found => /\ g.engine = {}
                           /\ r.raised = "PromptNotFoundException"
                           /\ r.carried = {n}

\* C13: in every registry state the three lookups agree: for a non-blank
\* name has_prompt is true exactly when get_prompt returns an engine, and
\* get_required_prompt then returns the same engine; for an unregistered
\* name get_prompt returns the not-found indicator and get_required_prompt
\* raises the not-found error carrying the name; for a blank name has_prompt
\* returns false and the other two raise ValueError.  No lookup changes the
\* registry.
C13_LookupsAgree ==
    /\ [](\A n \in LookupNames : LookupsAgree(templates, n))
    /\ [][obs'.op # "none" => templates' = templates]_vars

\* get_required_prompt has raised not-found on a non-empty registry
C13_Witness ==
    /\ obs.op = "get_required_prompt"
    /\ obs.raised = "PromptNotFoundException"
    /\ obs.carried = {NameB}
    /\ templates # EmptyRegistry
    /\ mpc = "idle"

(***************************************************************************)
(* More claims about the engine                                            *)
(***************************************************************************)
SpanNames(text) ==
    {SubSeq(text, p[1] + 1, p[2] - 1) : p \in {q \in Positions(text) : Span(text, q[1], q[2])}}

\* C14: generate_prompt is all-or-nothing: an error is the error of the
\* validation pass over the declared map, raised before any substitution;
\* once validation has passed, the callback raises for no occurrence of the
\* template (its own required-but-missing check never fires) and the call
\* returns the complete string.
C14_AllOrNothing ==
    Generated =>
        LET v == validate_placeholders(specification, replacements.map) IN
        /\ v.kind # "ok" => result = v
        /\ v.kind = "ok" =>
              /\ \A n \in SpanNames(specification.template) :
                    replace_placeholder(specification, replacements.map, n).kind = "ok"
              /\ result.kind = "ok"
              /\ result.out = ExpectedFrom(specification.template, 1, {})
        /\ result.kind # "ok" => result.out = <<>>

\* validation has passed for two declared placeholders, one of them required
\* and occurring in the template, and the string was returned
C14_Witness ==
    /\ Generated /\ result.kind = "ok"
    /\ Len(Items) = 2
    /\ \E i \in 1..2 :
          Items[i].required /\ HasSpanNamed(specification.template, Items[i].name)

(***************************************************************************)
(* Claims about semantic validation and the registry                       *)
(***************************************************************************)
\* C15: a load fails with a validation error whenever a specification of the
\* document, at any position, the last included, has a blank name, a blank
\* template or a blank declared placeholder key; a load in which every
\* specification passes these checks and no name repeats succeeds.
C15_DefectFailsLoad ==
    LoadedCollection =>
        /\ ~AllSound => outcome = "PromptValidationException"
        /\ (AllSound /\ ~RepeatedName) => outcome = "ok"

\* the last of two specifications had a blank placeholder key, the first
\* was sound, and the load raised
C15_Witness ==
    /\ LoadedCollection /\ Len(doc.prompts) = 2
    /\ Sound(doc.prompts[1])
    /\ doc.prompts[2].placeholders = BlankKey
    /\ outcome = "PromptValidationException"
    /\ message = PlaceholderNameEmpty

(***************************************************************************)
(* Claims about the two forms of each load                                 *)
(***************************************************************************)
Twin(which) == IF which = "sync" THEN "async" ELSE "sync"

RECURSIVE LoopOf(_, _, _, _)
LoopOf(which, reg, prompts, i) ==
    IF i > Len(prompts) THEN [outcome |-> "ok", message |-> NoMessage, reg |-> reg]
    ELSE LET r == Iteration(which, reg, prompts[i])
         IN IF r.raised
            THEN [outcome |-> "PromptValidationException", message |-> r.message,
                  reg |-> r.reg]
            ELSE LoopOf(which, r.reg, prompts, i + 1)

\* a whole load of a text, and of a file, by one of the two forms
TextLoadOf(which, d, reg) ==
    LET p == Prologue(which, d, reg)
    IN IF p.exit # "loop" THEN [outcome |-> p.exit, message |-> p.message, reg |-> p.reg]
       ELSE LoopOf(which, p.reg, d.prompts, 1)

FileLoadOf(which, f, reg) ==
    IF Exists(which, f) THEN TextLoadOf(which, f, reg)
    ELSE [outcome |-> "FileNotFoundError", message |-> FileNotFound, reg |-> reg]

\* C16: whatever the registry and the text, a load ends with the outcome and
\* the registry that the other form (sync for async, async for sync) ends
\* with; so do the two loads from a file, and a path that does not exist
\* raises file-not-found and leaves the registry as it was.
C16_SyncAndAsyncAgree ==
    LoadReturned =>
        /\ [outcome |-> outcome, message |-> message, reg |-> templates] =
              IF doc.file = "none" THEN TextLoadOf(Twin(loader), doc, pre)
              ELSE FileLoadOf(Twin(loader), doc, pre)
        /\ doc.file = "missing" => outcome = "FileNotFoundError" /\ templates = pre

\* the async load from a file has replaced a non-empty registry
C16_Witness ==
    /\ LoadReturned /\ loader = "async" /\ doc.file = "found"
    /\ outcome = "ok"
    /\ pre # EmptyRegistry /\ templates # pre /\ templates # EmptyRegistry

(***************************************************************************)
(* Claims about the entries of the registry                                *)
(***************************************************************************)
\* C17: in every reachable state every registry entry is well-formed: its
\* key is the name of its engine, that name and the engine's template are not
\* blank, no declared placeholder key of the engine is blank, and
\* template_count is the number of names of template_names and the number of
\* engines of get_all_prompts.
C17_EntriesWellFormed ==
    /\ \A n \in DOMAIN templates :
          /\ templates[n].name = n
          /\ ~AllSpace(n)
          /\ ~AllSpace(templates[n].template)
          /\ \A i \in 1..Len(templates[n].placeholders.items) :
                ~AllSpace(templates[n].placeholders.items[i].name)
    /\ template_count_result(templates).count =
          Cardinality(template_names_result(templates).names)
    /\ template_count_result(templates).count =
          Len(get_all_prompts_result(templates).all)

\* a load has failed at its second specification and left the first, with a
\* declared placeholder, in the registry
C17_Witness ==
    /\ LoadReturned /\ outcome = "PromptValidationException"
    /\ DOMAIN templates = {NameA}
    /\ templates[NameA].placeholders = RequiredA
    /\ pre # templates

====
